---- MODULE Spec2Model ----
(***************************************************************************)
(* A model of picoweb (src/picoweb/__init__.py): the WebApp object graph   *)
(* (route tables, mount tables, init flags), the registration calls that   *)
(* build it, and the connection coroutine WebApp._handle run by a          *)
(* cooperative scheduler.                                                  *)
(*                                                                         *)
(* Strings the code slices or compares by prefix (paths, mount prefixes,   *)
(* header lines) are sequences of one-character strings; the two-byte      *)
(* line ending is the single element "\r\n".  A line returned by           *)
(* reader.readline() is such a sequence, the empty sequence being b"" (the *)
(* peer has closed).  A byte or character outside printable ASCII is the   *)
(* element Chr gives for its value.  The first line of a request is the    *)
(* sequence of its tokens (the runs of bytes between ASCII white space),   *)
(* each a sequence of bytes, followed by the element of its line ending,   *)
(* so that a line of white space only is not the empty line; the code      *)
(* decodes the line and splits it again at the white space of Unicode.     *)
(*                                                                         *)
(* Writes and closes on the writer are taken to succeed.                   *)
(***************************************************************************)
EXTENDS Integers, Sequences, FiniteSets, TLC

VARIABLES
    url_map,        \* app -> its route table (WebApp.url_map)
    mounts,         \* app -> its mount table (WebApp.mounts)
    url,            \* app -> the prefix it was last mounted under (WebApp.url)
    inited,         \* app -> WebApp.inited
    headers_mode,   \* app -> WebApp.headers_mode
    phase,          \* "config" before run(), "serving" after
    calls,          \* number of registration calls made so far
    running,        \* the connection task holding the processor, or NoTask
    conn            \* connection -> the locals and effects of its _handle task

vars == <<url_map, mounts, url, inited, headers_mode, phase, calls, running, conn>>

appvars == <<url_map, mounts, url, inited, headers_mode>>

\* ------------------------------------------------------------ bounds

MaxMounts == 3

MaxRules == 2

MaxHeaderLines == 2

MaxChunks == 3

MaxHandlerCalls == 1

\* ------------------------------------------------------------ strings

CRLF == "\r\n"

StartsWith(s, p) == Len(p) <= Len(s) /\ SubSeq(s, 1, Len(p)) = p

Drop(s, n) == SubSeq(s, n + 1, Len(s))

RECURSIVE Find(_, _, _)
\* index of the first element ch of s at or after i, 0 when there is none
Find(s, ch, i) ==
    IF i > Len(s) THEN 0
    ELSE IF s[i] = ch THEN i
    ELSE Find(s, ch, i + 1)

\* s.split(ch, 1)
Split1(s, ch) ==
    LET i == Find(s, ch, 1)
    IN IF i = 0 THEN <<s>> ELSE <<SubSeq(s, 1, i - 1), Drop(s, i)>>

\* sub looked for at the start of s only
ContainsAtStart(s, sub) == StartsWith(s, sub)

\* sub in s
Contains(s, sub) ==
    \E i \in 1..(Len(s) - Len(sub) + 1) : SubSeq(s, i, i + Len(sub) - 1) = sub

\* the characters of codes 32 to 126; the grave accent, which a string of this
\* language cannot hold, is written as the characters outside this range are
Ascii ==
    <<" ", "!", "\"", "#", "$", "%", "&", "'", "(", ")", "*", "+",
       ",", "-", ".", "/", "0", "1", "2", "3", "4", "5", "6", "7",
       "8", "9", ":", ";", "<", "=", ">", "?", "@", "A", "B", "C",
       "D", "E", "F", "G", "H", "I", "J", "K", "L", "M", "N", "O",
       "P", "Q", "R", "S", "T", "U", "V", "W", "X", "Y", "Z", "[",
       "\\", "]", "^", "_", "\\x96", "a", "b", "c", "d", "e", "f", "g",
       "h", "i", "j", "k", "l", "m", "n", "o", "p", "q", "r", "s",
       "t", "u", "v", "w", "x", "y", "z", "{", "|", "}", "~">>

\* chr(n), and the byte of value n: the character itself when it is printable ASCII,
\* and a name of its own otherwise
Chr(n) == IF n >= 32 /\ n <= 126 THEN Ascii[n - 31] ELSE "\\x" \o ToString(n)

\* the bytes that bytes.strip() removes: b" \t\n\r\x0b\x0c"; CRLF is two of them
IsSpace(ch) == ch \in {" ", CRLF} \cup {Chr(n) : n \in 9..13}

RECURSIVE LStrip(_)
LStrip(s) == IF s # <<>> /\ IsSpace(s[1]) THEN LStrip(Tail(s)) ELSE s

RECURSIVE RStrip(_)
RStrip(s) ==
    IF s # <<>> /\ IsSpace(s[Len(s)]) THEN RStrip(SubSeq(s, 1, Len(s) - 1)) ELSE s

\* v.strip()
Strip(s) == RStrip(LStrip(s))

\* the codes of the white space of Unicode outside ASCII
UniSpaces == {133, 160, 5760} \cup (8192..8202) \cup {8232, 8233, 8239, 8287, 12288}

\* the characters int() ignores around the digits of a str: the white space of ASCII
\* and that of Unicode outside ASCII
IntSpaces == {Chr(n) : n \in (9..13) \cup {32} \cup UniSpaces}

IsIntSpace(ch) == ch \in IntSpaces

\* the characters str.split() separates at: those of str.isspace()
StrSpaces == {Chr(n) : n \in (9..13) \cup (28..32) \cup UniSpaces}

IsStrSpace(ch) == ch \in StrSpaces

\* the codes of the digits zero of Unicode (category Nd); the nine codes after each are
\* its digits one to nine
DecimalZeros ==
    {48,
     1632, 1776, 1984, 2406, 2534, 2662, 2790, 2918, 3046,
     3174, 3302, 3430, 3558, 3664, 3792, 3872, 4160, 4240,
     6112, 6160, 6470, 6608, 6784, 6800, 6992, 7088, 7232,
     7248, 42528, 43216, 43264, 43472, 43504, 43600, 44016, 65296,
     66720, 68912, 69734, 69872, 69942, 70096, 70384, 70736, 70864,
     71248, 71360, 71472, 71904, 72016, 72784, 73040, 73120, 92768,
     92864, 93008, 120782, 120792, 120802, 120812, 120822, 123200, 123632,
     125264, 130032}

DecimalChars == {Chr(z + d) : z \in DecimalZeros, d \in 0..9}

\* the value of a decimal digit of Unicode
DecimalOf ==
    [ch \in DecimalChars |-> CHOOSE d \in 0..9 : \E z \in DecimalZeros : Chr(z + d) = ch]

\* the bytes
Bytes == {Chr(n) : n \in 0..255}

\* the bytes of ASCII; each decodes to the character of the same value
AsciiBytes == {Chr(n) : n \in 0..127}

\* the value of a byte
ByteOf == [ch \in Bytes |-> CHOOSE n \in 0..255 : Chr(n) = ch]

RECURSIVE Utf8Scan(_, _, _, _)
\* the bytes b decoded as UTF-8, after the characters cur of the str begun and the
\* strs out: without split the one str b.decode() continues, with split the tokens
\* b.decode().split() adds, a character that is white space ending the str begun.
\* ok is false when decode() raises UnicodeDecodeError (a byte that starts no
\* sequence, a sequence cut short, an overlong one, a surrogate, a code above
\* 0x10FFFF).  The arguments of the next step are bound by a set constructor, which
\* has them evaluated once.
Utf8Scan(b, split, cur, out) ==
    IF b = <<>> THEN [ok |-> TRUE, toks |-> IF cur = <<>> THEN out ELSE Append(out, cur)]
    ELSE LET B(i) == IF i <= Len(b) /\ b[i] \in Bytes THEN ByteOf[b[i]] ELSE -1
             b1 == B(1)
             b2 == B(2)
             b3 == B(3)
             b4 == B(4)
             cont(x) == x >= 128 /\ x <= 191
             n == IF b[1] \in AsciiBytes THEN 1
                  ELSE IF b1 >= 194 /\ b1 <= 223 /\ cont(b2) THEN 2
                  ELSE IF /\ b1 >= 224 /\ b1 <= 239 /\ cont(b2) /\ cont(b3)
                          /\ b1 = 224 => b2 >= 160
                          /\ b1 = 237 => b2 <= 159
                  THEN 3
                  ELSE IF /\ b1 >= 240 /\ b1 <= 244 /\ cont(b2) /\ cont(b3) /\ cont(b4)
                          /\ b1 = 240 => b2 >= 144
                          /\ b1 = 244 => b2 <= 143
                  THEN 4
                  ELSE 0
             ch == IF n = 1 THEN b[1]
                   ELSE IF n = 2 THEN Chr((b1 - 192) * 64 + (b2 - 128))
                   ELSE IF n = 3
                   THEN Chr((b1 - 224) * 4096 + (b2 - 128) * 64 + (b3 - 128))
                   ELSE Chr((b1 - 240) * 262144 + (b2 - 128) * 4096 + (b3 - 128) * 64
                                + (b4 - 128))
             next == IF split /\ IsStrSpace(ch)
                     THEN <<Drop(b, n), <<>>, IF cur = <<>> THEN out ELSE Append(out, cur)>>
                     ELSE <<Drop(b, n), Append(cur, ch), out>>
         IN IF n = 0 THEN [ok |-> FALSE, toks |-> <<>>]
            ELSE CHOOSE r \in {Utf8Scan(a[1], split, a[2], a[3]) : a \in {next}} : TRUE

\* b.decode()
Utf8Decode(b) ==
    LET r == Utf8Scan(b, FALSE, <<>>, <<>>)
    IN [ok |-> r.ok, s |-> IF r.toks = <<>> THEN <<>> ELSE r.toks[1]]

RECURSIVE LStripInt(_)
LStripInt(s) == IF s # <<>> /\ IsIntSpace(s[1]) THEN LStripInt(Tail(s)) ELSE s

RECURSIVE RStripInt(_)
RStripInt(s) ==
    IF s # <<>> /\ IsIntSpace(s[Len(s)]) THEN RStripInt(SubSeq(s, 1, Len(s) - 1)) ELSE s

EndsWith(s, p) == Len(p) <= Len(s) /\ SubSeq(s, Len(s) - Len(p) + 1, Len(s)) = p

\* ------------------------------------------------------------ literals

S_root == <<"/">>
S_empty == <<>>
S_api == <<"/", "a", "p", "i">>
S_apiv2 == <<"/", "a", "p", "i", "/", "v", "2">>
S_foo1 == <<"/", "f", "o", "o", "/", "1">>
S_foo == <<"/", "f", "o", "o", "/">>
S_static == <<"s", "t", "a", "t", "i", "c", "/">>
S_x == <<"/", "x">>
S_v2 == <<"/", "v", "2">>
S_nope == <<"/", "n", "o", "p", "e">>
S_style == <<"/">> \o S_static \o <<"x", ".", "c", "s", "s">>
S_secret == <<"/">> \o S_static \o <<".", ".", "/", "s">>
S_query == <<"?", "a", "=", "1">>

\* ------------------------------------------------------------ Python values

PyNone == "None"
PyFalse == "False"
PyTrue == "True"
PyZero == "0"
PyObj == "object"

PyValues == {PyNone, PyFalse, PyTrue, PyZero, PyObj}

\* ------------------------------------------------------------ applications

Apps == {"root", "sub1", "sub2"}

Root == "root"

NoUrl == <<"unset">>

HeaderModes == {"parse", "skip", "leave"}

\* re.compile("^" + lit + "(" + grp + ".+)")
Re(lit, grp) == [kind |-> "re", s |-> lit, grp |-> grp]

Str(s) == [kind |-> "str", s |-> s, grp |-> <<>>]

NoExtra == [k \in {} |-> k]

Kw(mode) == [k \in {"headers"} |-> mode]

\* the entry WebApp.__init__ appends: (re.compile("^/(static/.+)"), self.handle_static)
StaticEntry == <<Re(S_root, S_static), "handle_static">>

\* WebApp.__init__(pkg, routes, serve_static)
NewUrlMap(routes, serve_static) ==
    IF serve_static THEN Append(routes, StaticEntry) ELSE routes

\* ------------------------------------------------------------ mount

\* no connection task is executing: all are suspended, ended or not started
NoTask == "none"

RECURSIVE InsertDesc(_, _, _)
\* x put behind the elements of the descending sequence s whose key is >= its own
InsertDesc(s, x, key) ==
    IF s = <<>> THEN <<x>>
    ELSE IF Len(key[s[1]]) >= Len(key[x]) THEN <<s[1]>> \o InsertDesc(Tail(s), x, key)
    ELSE <<x>> \o s

RECURSIVE SortDesc(_, _)
\* list.sort(key=lambda app: len(app.url), reverse=True): stable, by the given keys
SortDesc(s, key) ==
    IF s = <<>> THEN <<>>
    ELSE InsertDesc(SortDesc(SubSeq(s, 1, Len(s) - 1), key), s[Len(s)], key)

\* the mount table of self after self.mount(u, app), the prefixes being newurl
MountsAfter(self, app, newurl) == SortDesc(Append(mounts[self], app), newurl)

\* WebApp.mount(self, u, app)
Mount(self, u, app) ==
    /\ running = NoTask
    /\ calls.mount < MaxMounts
    /\ LET newurl == [url EXCEPT ![app] = u]
       IN /\ url' = newurl
          /\ mounts' = [mounts EXCEPT ![self] = MountsAfter(self, app, newurl)]
    /\ calls' = [calls EXCEPT !.mount = @ + 1]
    /\ UNCHANGED <<url_map, inited, headers_mode, phase, running, conn>>

\* ------------------------------------------------------------ routes

\* WebApp.add_url_rule(self, pattern, func, **kwargs)
AddUrlRule(self, pattern, func, kwargs) ==
    /\ running = NoTask
    /\ calls.rule < MaxRules
    /\ url_map' = [url_map EXCEPT ![self] = Append(@, <<pattern, func, kwargs>>)]
    /\ calls' = [calls EXCEPT !.rule = @ + 1]
    /\ UNCHANGED <<mounts, url, inited, headers_mode, phase, running, conn>>

\* @app.route(pattern, **kwargs) applied to f
Route(self, pattern, f, kwargs) ==
    /\ running = NoTask
    /\ calls.rule < MaxRules
    /\ url_map' = [url_map EXCEPT ![self] = Append(@, <<pattern, f, kwargs>>)]
    /\ calls' = [calls EXCEPT !.rule = @ + 1]
    /\ UNCHANGED <<mounts, url, inited, headers_mode, phase, running, conn>>

\* ------------------------------------------------------------ run

RECURSIVE InitAll(_, _)
\* for app in self.mounts: app.init()
InitAll(flags, s) ==
    IF s = <<>> THEN flags
    ELSE InitAll([flags EXCEPT ![s[1]] = TRUE], Tail(s))

\* WebApp.run(self, lazy_init) on the root application, up to serve()
Run(lazy_init) ==
    /\ phase = "config"
    /\ phase' = "serving"
    /\ inited' = IF lazy_init THEN [inited EXCEPT ![Root] = TRUE]
                 ELSE InitAll([inited EXCEPT ![Root] = TRUE], mounts[Root])
    /\ UNCHANGED <<url_map, mounts, url, headers_mode, calls, running, conn>>

\* WebApp.serve(self, loop, host, port) called by the application author without
\* run(): the server starts and no application is initialized
Serve ==
    /\ phase = "config"
    /\ phase' = "serving"
    /\ UNCHANGED <<url_map, mounts, url, inited, headers_mode, calls, running, conn>>

\* ------------------------------------------------------------ connections

Conns == {"c1", "c2"}

NoMatch == <<"nomatch">>

NoHeaders == [k \in {} |-> k]

\* HTTPRequest(): an object with no attribute set; has lists the attributes set so far
NewRequest == [made |-> TRUE, has |-> {}, url_match |-> NoMatch, headers |-> NoHeaders,
               method |-> <<>>, path |-> <<>>, qs |-> <<>>, form |-> NoHeaders]

\* req = None
NoRequest == [NewRequest EXCEPT !.made = FALSE]

\* the locals of _handle before its first statement, and the task's effects so far:
\* written (the awrite calls), aclose (calls of writer.aclose by _handle), hook (the
\* errors handle_exc was called with), invoked (the handlers called), inits (calls of
\* init() by _handle), lookups (the resources sendfile asked pkg_resources for, and
\* whether each was found).  While a handler runs: chunks (the reads of sendstream that
\* return data), pending (the awrite calls still to make of the response helper the
\* handler is suspended in), hcalls (the handler's calls of response helpers and of
\* read_form_data), size (the local of read_form_data) and parsed (the string given to
\* the last call of parse_qs that returned).
NewConn == [pc |-> "idle", request_line |-> <<>>, l |-> <<>>, eof |-> FALSE, nlines |-> 0,
            close |-> PyTrue, req |-> NoRequest,
            method |-> <<>>, path |-> <<>>, qs |-> <<>>,
            app |-> Root, found |-> FALSE, root |-> <<>>,
            handler |-> "", extra |-> NoExtra, headers_mode |-> "",
            headers |-> NoHeaders, err |-> "",
            written |-> <<>>, aclose |-> 0, hook |-> <<>>, invoked |-> <<>>,
            inits |-> 0, lookups |-> <<>>,
            chunks |-> 0, pending |-> <<>>, hcalls |-> 0, size |-> 0, parsed |-> <<>>]

Set(c, r) == conn' = [conn EXCEPT ![c] = r]

\* start_response(writer, content_type, status) with headers=None: its awrite calls
StartResponse(content_type, status) ==
    << [fmt |-> "HTTP/1.0 %s NA\r\n", arg |-> status],
       [fmt |-> "%s", arg |-> "Content-Type: "],
       [fmt |-> "%s", arg |-> content_type],
       [fmt |-> "%s", arg |-> "\r\n\r\n"] >>

DefaultContentType == "text/html; charset=utf-8"

\* http_error(writer, status)
HttpError(status) ==
    StartResponse(DefaultContentType, status) \o << [fmt |-> "%s", arg |-> status] >>

\* the statuses of the status lines written on a connection
Statuses(w) == { w[i].arg : i \in { j \in 1..Len(w) : w[j].fmt = "HTTP/1.0 %s NA\r\n" } }

\* asyncio.start_server calls self._handle(reader, writer): lines 128-131, up to the
\* first readline
Accept(c) ==
    /\ phase = "serving"
    /\ running = NoTask
    /\ conn[c].pc = "idle"
    /\ Set(c, [conn[c] EXCEPT !.pc = "request_line", !.close = PyTrue, !.req = NoRequest])
    /\ UNCHANGED <<appvars, phase, calls, running>>

\* the header loops ended by b"" as well
IsBlankLineOrEof(line) == line \in {<<CRLF>>, <<>>}

\* lines 121 and 187: l == b"\r\n"
IsBlankLine(line) == line = <<CRLF>>

\* the first line tested like a header line, against b"\r\n"
IsEmptyReadCRLF(line) == Len(line) = 1 /\ line[1] = CRLF

\* line 132: request_line == b""
IsEmptyRead(line) == Len(line) = 0

\* the tokens of a line that ends with its line ending: its runs of bytes that are no
\* white space of ASCII
Tokens(line) == SubSeq(line, 1, Len(line) - 1)

RECURSIVE DecodeTokens(_, _)
\* the tokens of the str the bytes of toks decode to, after those of out: white space
\* of Unicode separates tokens too; ok is false when a token cannot be decoded (no
\* UTF-8 sequence of more than one byte holds a byte of ASCII, so the line can be
\* decoded exactly when each token can)
DecodeTokens(toks, out) ==
    IF toks = <<>> THEN [ok |-> TRUE, toks |-> out]
    ELSE CHOOSE x \in {IF r.ok THEN DecodeTokens(Tail(toks), r.toks) ELSE r :
                           r \in {Utf8Scan(toks[1], TRUE, <<>>, out)}} : TRUE

\* request_line.decode().split(), lines 136-137
RequestTokens(line) == DecodeTokens(Tokens(line), <<>>)

\* lines 131-144: the first readline returns `line`
ReadRequestLine(c, line) ==
    /\ running = NoTask
    /\ conn[c].pc = "request_line"
    /\ LET k == [conn[c] EXCEPT !.request_line = line, !.eof = (Len(line) = 0)]
       IN IF IsEmptyRead(line)
          THEN \* yield from writer.aclose(); return
               /\ Set(c, [k EXCEPT !.aclose = @ + 1, !.pc = "done"])
               /\ UNCHANGED running
          ELSE IF ~RequestTokens(line).ok \/ Len(RequestTokens(line).toks) # 3
          THEN \* request_line.decode() raises UnicodeDecodeError, a ValueError, or
               \* method, path, proto = request_line.split() raises ValueError
               /\ Set(c, [k EXCEPT !.req = NewRequest, !.err = "ValueError", !.pc = "exc"])
               /\ running' = c
          ELSE LET toks == RequestTokens(line).toks
                   parts == Split1(toks[2], "?")
               IN /\ Set(c, [k EXCEPT !.req = NewRequest,
                                      !.method = toks[1],
                                      !.path = parts[1],
                                      !.qs = IF Len(parts) > 1 THEN parts[2] ELSE <<>>,
                                      !.app = Root,
                                      !.pc = "mount_top"])
                  /\ running' = c
    /\ UNCHANGED <<appvars, phase, calls>>

\* line 146, the head of the while loop
MountTop(c) ==
    /\ running = c
    /\ conn[c].pc = "mount_top"
    /\ Set(c, [conn[c] EXCEPT !.found = FALSE, !.pc = "mount_for"])
    /\ UNCHANGED <<appvars, phase, calls, running>>

RECURSIVE LastMount(_, _, _)
\* the index of the last mount of ms whose prefix is a prefix of path, 0 when none
LastMount(ms, path, i) ==
    IF i = 0 THEN 0
    ELSE IF StartsWith(path, url[ms[i]]) THEN i
    ELSE LastMount(ms, path, i - 1)

RECURSIVE FirstMount(_, _, _)
\* lines 147-149: the index of the first mount of ms, from i on, whose prefix is a
\* prefix of path (path[:len(root)] == root), 0 when none
FirstMount(ms, path, i) ==
    IF i > Len(ms) THEN 0
    ELSE IF StartsWith(path, url[ms[i]]) THEN i
    ELSE FirstMount(ms, path, i + 1)

\* lines 152-154
StripPrefix(path, root) ==
    LET rest == Drop(path, Len(root))
    IN IF StartsWith(rest, <<"/">>) THEN rest ELSE <<"/">> \o rest

\* lines 147-157: the for loop over app.mounts and the test that ends the while loop
MountFor(c) ==
    /\ running = c
    /\ conn[c].pc = "mount_for"
    /\ LET k == conn[c]
           ms == mounts[k.app]
           i == FirstMount(ms, k.path, 1)
       IN IF i = 0
          THEN \* root was bound to the prefix of every mount tried (line 148)
               Set(c, [k EXCEPT !.root = IF Len(ms) > 0 THEN url[ms[Len(ms)]] ELSE @,
                                !.pc = "init"])
          ELSE Set(c, [k EXCEPT !.root = url[ms[i]],
                                !.app = ms[i],
                                !.found = TRUE,
                                !.path = StripPrefix(k.path, url[ms[i]]),
                                !.pc = "mount_top"])
    /\ UNCHANGED <<appvars, phase, calls, running>>

\* init() called without the test of the flag
InitAppAlways(c) ==
    /\ running = c
    /\ conn[c].pc = "init"
    /\ inited' = [inited EXCEPT ![conn[c].app] = TRUE]
    /\ Set(c, [conn[c] EXCEPT !.inits = @ + 1, !.pc = "route"])
    /\ UNCHANGED <<url_map, mounts, url, headers_mode, phase, calls, running>>

\* init() registering the static route, as __init__ does
InitAppRebuild(c) ==
    /\ running = c
    /\ conn[c].pc = "init"
    /\ IF inited[conn[c].app]
       THEN /\ Set(c, [conn[c] EXCEPT !.pc = "route"])
            /\ UNCHANGED <<inited, url_map>>
       ELSE /\ inited' = [inited EXCEPT ![conn[c].app] = TRUE]
            /\ url_map' = [url_map EXCEPT ![conn[c].app] = NewUrlMap(@, TRUE)]
            /\ Set(c, [conn[c] EXCEPT !.inits = @ + 1, !.pc = "route"])
    /\ UNCHANGED <<mounts, url, headers_mode, phase, calls, running>>

\* lines 159-160, with WebApp.init
InitApp(c) ==
    /\ running = c
    /\ conn[c].pc = "init"
    /\ IF inited[conn[c].app]
       THEN /\ Set(c, [conn[c] EXCEPT !.pc = "route"])
            /\ UNCHANGED inited
       ELSE /\ inited' = [inited EXCEPT ![conn[c].app] = TRUE]
            /\ Set(c, [conn[c] EXCEPT !.inits = @ + 1, !.pc = "route"])
    /\ UNCHANGED <<url_map, mounts, url, headers_mode, phase, calls, running>>

\* pattern.match(path) for the compiled pattern ^lit(grp.+)
ReMatches(pattern, path) ==
    /\ StartsWith(path, pattern.s \o pattern.grp)
    /\ Len(path) > Len(pattern.s \o pattern.grp)

\* m.group(1) of that match
Group1(pattern, path) == Drop(path, Len(pattern.s))

\* lines 169-177: what one entry does with the path: "eq" (path == pattern), "re" (the
\* compiled pattern matches) or "no"
EntryHit(e, path) ==
    IF e[1].kind = "str" /\ path = e[1].s THEN "eq"
    ELSE IF e[1].kind # "str" /\ ReMatches(e[1], path) THEN "re"
    ELSE "no"

\* the result of the route loop when entry e ends it
Hit(e, path) ==
    [found |-> TRUE,
     handler |-> e[2],
     extra |-> IF Len(e) > 2 THEN e[3] ELSE NoExtra,
     matched |-> EntryHit(e, path) = "re",
     m |-> IF EntryHit(e, path) = "re" THEN Group1(e[1], path) ELSE NoMatch]

\* the result of the route loop when no entry of um ends it: handler and extra are
\* those of the last entry tried (lines 165-168), and are not bound when um is empty
Miss(um) ==
    [found |-> FALSE,
     handler |-> IF Len(um) > 0 THEN um[Len(um)][2] ELSE "",
     extra |-> IF Len(um) > 0 /\ Len(um[Len(um)]) > 2 THEN um[Len(um)][3] ELSE NoExtra,
     matched |-> FALSE,
     m |-> NoMatch]

RECURSIVE RouteScanLast(_, _, _)
\* the route loop run from the end of the table
RouteScanLast(um, path, i) ==
    IF Len(um) - i + 1 < 1 THEN Miss(um)
    ELSE IF EntryHit(um[Len(um) - i + 1], path) # "no" THEN Hit(um[Len(um) - i + 1], path)
    ELSE RouteScanLast(um, path, i + 1)

RECURSIVE RouteScan(_, _, _)
\* lines 162-177: the entries of um tried in order from i on, the first hit ending the loop
RouteScan(um, path, i) ==
    IF i > Len(um) THEN Miss(um)
    ELSE IF EntryHit(um[i], path) # "no" THEN Hit(um[i], path)
    ELSE RouteScan(um, path, i + 1)

\* the header policy with the forced skip of line 180 left out
HeadersModeNoForce(found, extra) ==
    IF "headers" \in DOMAIN extra THEN extra["headers"] ELSE headers_mode[Root]

\* lines 179-182; self is the application whose _handle serves, the root
HeadersModeFor(found, extra) ==
    IF ~found THEN "skip"
    ELSE IF "headers" \in DOMAIN extra THEN extra["headers"]
    ELSE headers_mode[Root]

\* the route table read with the serving application in place of the resolved one
TableOfSelf(app) == url_map[Root]

\* line 163: app.url_map
Table(app) == url_map[app]

\* lines 162-192, up to the first readline of the header policy
ResolveRoute(c) ==
    /\ running = c
    /\ conn[c].pc = "route"
    /\ LET k == conn[c]
           r == RouteScan(Table(k.app), k.path, 1)
           mode == HeadersModeFor(r.found, r.extra)
           k2 == [k EXCEPT !.found = r.found,
                           !.handler = r.handler,
                           !.extra = r.extra,
                           !.req = IF r.matched
                                   THEN [@ EXCEPT !.url_match = r.m,
                                                  !.has = @ \cup {"url_match"}]
                                   ELSE @,
                           !.headers_mode = mode]
       IN IF mode = "skip"
          THEN /\ Set(c, [k2 EXCEPT !.pc = "skip_read"])
               /\ running' = NoTask
          ELSE IF mode = "parse"
          THEN /\ Set(c, [k2 EXCEPT !.headers = NoHeaders, !.pc = "parse_read"])
               /\ running' = NoTask
          ELSE IF mode = "leave"
          THEN /\ Set(c, [k2 EXCEPT !.pc = "dispatch"])
               /\ UNCHANGED running
          ELSE \* assert headers_mode == "leave"
               /\ Set(c, [k2 EXCEPT !.err = "AssertionError", !.pc = "exc"])
               /\ UNCHANGED running
    /\ UNCHANGED <<appvars, phase, calls>>

\* the lines the peer can make the next readline return: nothing but b"" once it has
\* closed, and at most MaxHeaderLines header lines before the blank line or the close
NextLines(c, lines) ==
    IF conn[c].eof THEN {<<>>}
    ELSE IF conn[c].nlines >= MaxHeaderLines THEN lines \cap {<<>>, <<CRLF>>}
    ELSE lines

Got(k, line) ==
    [k EXCEPT !.l = line,
              !.eof = (line = <<>>),
              !.nlines = IF line \in {<<>>, <<CRLF>>} THEN @ ELSE @ + 1]

\* line 186: the readline of the skip loop returns `line`
SkipRead(c, line) ==
    /\ running = NoTask
    /\ conn[c].pc = "skip_read"
    /\ Set(c, [Got(conn[c], line) EXCEPT !.pc = "skip_test"])
    /\ running' = c
    /\ UNCHANGED <<appvars, phase, calls>>

\* lines 187-188, and line 186 again when the loop goes on
SkipTest(c) ==
    /\ running = c
    /\ conn[c].pc = "skip_test"
    /\ IF IsBlankLine(conn[c].l)
       THEN /\ Set(c, [conn[c] EXCEPT !.pc = "dispatch"])
            /\ UNCHANGED running
       ELSE /\ Set(c, [conn[c] EXCEPT !.pc = "skip_read"])
            /\ running' = NoTask
    /\ UNCHANGED <<appvars, phase, calls>>

\* line 120: the readline of parse_headers returns `line`
ParseRead(c, line) ==
    /\ running = NoTask
    /\ conn[c].pc = "parse_read"
    /\ Set(c, [Got(conn[c], line) EXCEPT !.pc = "parse_test"])
    /\ running' = c
    /\ UNCHANGED <<appvars, phase, calls>>

\* headers[k] = v
Put(h, key, v) == [x \in DOMAIN h \cup {key} |-> IF x = key THEN v ELSE h[x]]

\* lines 121-125 and line 190, and line 120 again when the loop goes on
ParseTest(c) ==
    /\ running = c
    /\ conn[c].pc = "parse_test"
    /\ LET k == conn[c]
           kv == Split1(k.l, ":")
       IN IF IsBlankLine(k.l)
          THEN /\ Set(c, [k EXCEPT !.req = [@ EXCEPT !.headers = k.headers,
                                                     !.has = @ \cup {"headers"}],
                                   !.pc = "dispatch"])
               /\ UNCHANGED running
          ELSE IF Len(kv) # 2
          THEN \* k, v = l.split(b":", 1) raises ValueError
               /\ Set(c, [k EXCEPT !.err = "ValueError", !.pc = "exc"])
               /\ UNCHANGED running
          ELSE /\ Set(c, [k EXCEPT !.headers = Put(@, kv[1], Strip(kv[2])),
                                   !.pc = "parse_read"])
               /\ running' = NoTask
    /\ UNCHANGED <<appvars, phase, calls>>

\* get_mime_type(fname)
GetMimeType(fname) ==
    IF EndsWith(fname, <<".", "h", "t", "m", "l">>) THEN "text/html"
    ELSE IF EndsWith(fname, <<".", "c", "s", "s">>) THEN "text/css"
    ELSE IF EndsWith(fname, <<".", "p", "n", "g">>) \/ EndsWith(fname, <<".", "j", "p", "g">>)
    THEN "image"
    ELSE "text/plain"

\* lines 194-202: the handler is called, or the 404 response is written
Dispatch(c) ==
    /\ running = c
    /\ conn[c].pc = "dispatch"
    /\ LET k == conn[c]
       IN IF k.found
          THEN /\ Set(c, [k EXCEPT !.req = [@ EXCEPT !.method = k.method,
                                                     !.path = k.path,
                                                     !.qs = k.qs,
                                                     !.has = @ \cup {"method", "path", "qs", "reader"}],
                                   !.invoked = Append(@, k.handler),
                                   !.pc = IF k.handler = "handle_static"
                                          THEN "static" ELSE "in_handler"])
               /\ running' = NoTask
          ELSE \* the task suspends in the first awrite of start_response
               /\ Set(c, [k EXCEPT !.pc = "not_found"])
               /\ running' = NoTask
    /\ UNCHANGED <<appvars, phase, calls>>

\* lines 201-202: the awrite calls of the 404 response
NotFoundResponse ==
    StartResponse(DefaultContentType, "404") \o << [fmt |-> "%s", arg |-> "404\r\n"] >>

\* lines 201-202: one awrite of the 404 response completes; the task suspends in the
\* next one, or goes on to line 206 after the last
WriteNotFound(c) ==
    /\ running = NoTask
    /\ conn[c].pc = "not_found"
    /\ LET i == Len(conn[c].written) + 1
       IN IF i < Len(NotFoundResponse)
          THEN /\ Set(c, [conn[c] EXCEPT !.written = Append(@, NotFoundResponse[i])])
               /\ UNCHANGED running
          ELSE /\ Set(c, [conn[c] EXCEPT !.written = Append(@, NotFoundResponse[i]),
                                         !.pc = "close"])
               /\ running' = c
    /\ UNCHANGED <<appvars, phase, calls>>

\* line 199: a handler of the application author returns v
HandlerReturns(c, v) ==
    /\ running = NoTask
    /\ conn[c].pc = "in_handler"
    /\ conn[c].pending = <<>>
    /\ Set(c, [conn[c] EXCEPT !.close = v, !.pc = "close"])
    /\ running' = c
    /\ UNCHANGED <<appvars, phase, calls>>

\* line 199: a handler of the application author raises, or an error is thrown into
\* it where it is suspended.  Line 203 catches an Exception; a BaseException that is
\* none (KeyboardInterrupt, or the GeneratorExit of a task that is closed) leaves
\* _handle: neither line 204 nor lines 206-207 run.
HandlerRaises(c, kind) ==
    /\ running = NoTask
    /\ conn[c].pc = "in_handler"
    /\ IF kind = "Exception"
       THEN /\ Set(c, [conn[c] EXCEPT !.err = "HandlerError", !.pending = <<>>,
                                      !.pc = "exc"])
            /\ running' = c
       ELSE /\ Set(c, [conn[c] EXCEPT !.pending = <<>>, !.pc = "failed"])
            /\ UNCHANGED running
    /\ UNCHANGED <<appvars, phase, calls>>

\* sendstream (lines 49-55) for a stream whose readinto returns data n times: one
\* awrite for each buffer of at most SEND_BUFSZ bytes, none for an empty resource
SendStream(n) == [i \in 1..n |-> [fmt |-> "%s", arg |-> "<file>"]]

\* the awrite calls of sendfile for a resource that exists (lines 247-248)
SendFile(fname, n) == StartResponse(GetMimeType(fname), "200") \o SendStream(n)

\* the awrite calls of handle_static for the captured path: those of http_error
\* (line 258), or those of sendfile for a resource that exists, read in n buffers
StaticResponse(path, n) ==
    IF Contains(path, <<".", ".">>) THEN HttpError("403")
    ELSE SendFile(path, n)

\* handle_static and sendfile (lines 242-261), called at line 199, up to their first
\* awrite; exists says whether pkg_resources finds the resource and n in how many
\* buffers sendstream reads it.  When the resource is not found, the except clause of
\* sendfile evaluates uerrno.ENOENT, a name the module never binds, which raises
\* NameError.
HandleStatic(c, exists, n) ==
    /\ running = NoTask
    /\ conn[c].pc = "static"
    /\ n \in 0..MaxChunks
    /\ ~exists => n = 0
    /\ LET k == conn[c]
           path == k.req.url_match
       IN IF "url_match" \notin k.req.has
          THEN /\ Set(c, [k EXCEPT !.err = "AttributeError", !.pc = "exc"])
               /\ running' = c
          ELSE IF Contains(path, <<".", ".">>)
          THEN /\ Set(c, [k EXCEPT !.pc = "static_write"])
               /\ UNCHANGED running
          ELSE IF exists
          THEN /\ Set(c, [k EXCEPT !.lookups = Append(@, [name |-> path, found |-> TRUE]),
                                   !.chunks = n,
                                   !.pc = "static_write"])
               /\ UNCHANGED running
          ELSE /\ Set(c, [k EXCEPT !.lookups = Append(@, [name |-> path, found |-> FALSE]),
                                   !.err = "NameError", !.pc = "exc"])
               /\ running' = c
    /\ UNCHANGED <<appvars, phase, calls>>

\* one awrite of handle_static completes; the task suspends in the next one, or the
\* handler returns None after the last
StaticWrite(c) ==
    /\ running = NoTask
    /\ conn[c].pc = "static_write"
    /\ LET k == conn[c]
           out == StaticResponse(k.req.url_match, k.chunks)
           i == Len(k.written) + 1
       IN IF i < Len(out)
          THEN /\ Set(c, [k EXCEPT !.written = Append(@, out[i])])
               /\ UNCHANGED running
          ELSE /\ Set(c, [k EXCEPT !.written = Append(@, out[i]),
                                   !.close = PyNone, !.pc = "close"])
               /\ running' = c
    /\ UNCHANGED <<appvars, phase, calls>>

\* lines 203-204: handle_exc is called with the error, up to its first suspension.
\* The hook of lines 209-211 returns without one; an overriding hook may raise, and then
\* the error leaves _handle, or may await (line 204 is a 'yield from'), and then the
\* task is suspended inside the hook.
HandleExc(c, outcome) ==
    /\ running = c
    /\ conn[c].pc = "exc"
    /\ IF outcome = "return"
       THEN /\ Set(c, [conn[c] EXCEPT !.hook = Append(@, conn[c].err), !.pc = "close"])
            /\ UNCHANGED running
       ELSE IF outcome = "await"
       THEN /\ Set(c, [conn[c] EXCEPT !.hook = Append(@, conn[c].err), !.pc = "in_hook"])
            /\ running' = NoTask
       ELSE /\ Set(c, [conn[c] EXCEPT !.hook = Append(@, conn[c].err), !.pc = "failed"])
            /\ running' = NoTask
    /\ UNCHANGED <<appvars, phase, calls>>

\* what an overriding hook may await: an awrite of a status, or something that writes
\* nothing
HookWrites == {<<>>, << [fmt |-> "%s", arg |-> "500"] >>}

\* line 204, resumed: what the hook awaited completes (w is what it wrote), and the
\* hook returns, so that the task goes on to line 206, or raises
HookResumes(c, w, outcome) ==
    /\ running = NoTask
    /\ conn[c].pc = "in_hook"
    /\ w \in HookWrites
    /\ IF outcome = "return"
       THEN /\ Set(c, [conn[c] EXCEPT !.written = @ \o w, !.pc = "close"])
            /\ running' = c
       ELSE /\ Set(c, [conn[c] EXCEPT !.written = @ \o w, !.pc = "failed"])
            /\ UNCHANGED running
    /\ UNCHANGED <<appvars, phase, calls>>

\* line 206: close is not False
ShouldClose(close) == close # PyFalse

\* lines 206-207
Close(c) ==
    /\ running = c
    /\ conn[c].pc = "close"
    /\ Set(c, [conn[c] EXCEPT !.aclose = IF ShouldClose(conn[c].close) THEN @ + 1 ELSE @,
                              !.pc = "done"])
    /\ running' = NoTask
    /\ UNCHANGED <<appvars, phase, calls>>

\* ------------------------------------------------------------ specifications

\* the applications as constructed (lines 101-115): root with the given routes, every
\* application serving static files or not
InitWith(rootRoutes, statics) ==
    /\ \E routes \in rootRoutes, st \in statics :
          url_map = [a \in Apps |-> NewUrlMap(IF a = Root THEN routes ELSE <<>>, st[a])]
    /\ mounts = [a \in Apps |-> <<>>]
    /\ url = [a \in Apps |-> NoUrl]
    /\ inited = [a \in Apps |-> FALSE]
    /\ headers_mode = [a \in Apps |-> "parse"]
    /\ phase = "config"
    /\ calls = [mount |-> 0, rule |-> 0]
    /\ running = NoTask
    /\ conn = [c \in Conns |-> NewConn]

\* the steps of connection c, its inputs drawn from the sets of the record I
Step(c, I) ==
    \/ Accept(c)
    \/ \E line \in I.reqlines : ReadRequestLine(c, line)
    \/ MountTop(c)
    \/ MountFor(c)
    \/ InitApp(c)
    \/ ResolveRoute(c)
    \/ \E line \in NextLines(c, I.lines) : SkipRead(c, line)
    \/ SkipTest(c)
    \/ \E line \in NextLines(c, I.lines) : ParseRead(c, line)
    \/ ParseTest(c)
    \/ Dispatch(c)
    \/ WriteNotFound(c)
    \/ \E v \in I.rets : HandlerReturns(c, v)
    \/ \E kind \in I.raises : HandlerRaises(c, kind)
    \/ \E exists \in BOOLEAN, n \in I.chunks : HandleStatic(c, exists, n)
    \/ StaticWrite(c)
    \/ \E outcome \in I.hooks : HandleExc(c, outcome)
    \/ \E w \in HookWrites, outcome \in I.hooks \ {"await"} : HookResumes(c, w, outcome)
    \/ Close(c)

S_GET == <<"G", "E", "T">>

S_HTTP10 == <<"H", "T", "T", "P", "/", "1", ".", "0">>

Get(t) == <<S_GET, t, S_HTTP10, CRLF>>

\* a target that is no UTF-8, and one that holds U+2003, white space to str.split()
S_undecodable == <<"/", Chr(255)>>

S_emspace == <<"/", "a", Chr(226), Chr(128), Chr(131), "b">>

H_blank == <<CRLF>>
H_host == <<"H", ":", " ", "a", CRLF>>
H_nocolon == <<"H", CRLF>>
H_eof == <<>>

AllLines == {H_blank, H_host, H_nocolon, H_eof}

R_exact == <<Str(S_foo1), "h1", NoExtra>>
R_regex == <<Re(S_foo, <<>>), "h2", Kw("skip")>>
R_style == <<Str(S_style), "h3", Kw("leave")>>

AllStatic == {[a \in Apps |-> b] : b \in BOOLEAN}

SpecIn ==
    [conns |-> {"c1"},
     reqlines |-> {<<>>, <<CRLF>>, <<S_GET, S_foo1, CRLF>>}
                  \cup {Get(t) : t \in {S_foo1, S_foo1 \o S_query, S_style, S_secret,
                                        S_api \o S_foo1, S_nope, S_undecodable,
                                        S_emspace}},
     lines |-> AllLines,
     rets |-> PyValues,
     hooks |-> {"return", "raise", "await"},
     raises |-> {"Exception", "BaseException"},
     chunks |-> 0..MaxChunks,
     mounts |-> {<<Root, S_api, "sub1">>},
     rules |-> {<<a, r>> : a \in {Root, "sub1"}, r \in {R_exact, R_regex, R_style}},
     lazy |-> BOOLEAN]

\* the calls of the application author's script: every registration is made before
\* the server is started, with run() or with serve()
Setup(I) ==
    \/ phase = "config" /\ \E m \in I.mounts : Mount(m[1], m[2], m[3])
    \/ phase = "config" /\ \E r \in I.rules : AddUrlRule(r[1], r[2][1], r[2][2], r[2][3])
    \/ phase = "config" /\ \E r \in I.rules : Route(r[1], r[2][1], r[2][2], r[2][3])
    \/ \E lazy_init \in I.lazy : Run(lazy_init)
    \/ Serve

Init == InitWith({<<>>, <<R_style>>}, AllStatic)

Next ==
    \/ Setup(SpecIn)
    \/ \E c \in SpecIn.conns : Step(c, SpecIn)

Spec == Init /\ [][Next]_vars

\* Mount configurations of every shape, and few requests.  The scheduler runs a task
\* that can run, every readline returns (a line, or b"" once the peer has closed) and
\* every handler returns or raises: each connection's steps are weakly fair.
FairIn ==
    [conns |-> {"c1"},
     reqlines |-> {Get(t) : t \in {S_apiv2 \o S_x, S_api \o S_x, S_style}},
     lines |-> {H_blank, H_eof},
     rets |-> {PyNone},
     hooks |-> {"return", "await"},
     raises |-> {"Exception", "BaseException"},
     chunks |-> {0, 1},
     mounts |-> {<<p, u, a>> : p \in Apps, u \in {S_empty, S_root, S_api, S_apiv2},
                              a \in Apps},
     lazy |-> {TRUE}]

FairInit == InitWith({<<R_style>>}, {[a \in Apps |-> TRUE]})

FairNext ==
    \/ phase = "config" /\ \E m \in FairIn.mounts : Mount(m[1], m[2], m[3])
    \/ \E lazy_init \in FairIn.lazy : Run(lazy_init)
    \/ \E c \in FairIn.conns : Step(c, FairIn)

FairSpec ==
    /\ FairInit
    /\ [][FairNext]_vars
    /\ \A c \in FairIn.conns : WF_vars(Step(c, FairIn))

\* app.headers_mode = mode: the application author sets the default policy of line 115
SetHeadersMode(app, mode) ==
    /\ running = NoTask
    /\ headers_mode' = [headers_mode EXCEPT ![app] = mode]
    /\ UNCHANGED <<url_map, mounts, url, inited, phase, calls, running, conn>>

\* Two connections served at once, sub-applications nested two deep, and a
\* sub-application whose default header policy is not the root's.
ConcIn ==
    [conns |-> Conns,
     reqlines |-> {<<>>} \cup {Get(t) : t \in {S_foo1, S_api \o S_style,
                                                 S_api \o S_v2 \o S_x}},
     lines |-> {H_blank, H_nocolon},
     rets |-> {PyNone},
     hooks |-> {"return", "await"},
     raises |-> {"Exception", "BaseException"},
     chunks |-> {0, 1},
     mounts |-> {<<Root, S_api, "sub1">>, <<"sub1", S_v2, "sub2">>},
     modes |-> {<<"sub1", "skip">>},
     lazy |-> BOOLEAN]

ConcInit == InitWith({<<R_exact>>}, {[a \in Apps |-> TRUE]})

ConcNext ==
    \/ \E m \in ConcIn.mounts : Mount(m[1], m[2], m[3])
    \/ \E m \in ConcIn.modes : SetHeadersMode(m[1], m[2])
    \/ \E lazy_init \in ConcIn.lazy : Run(lazy_init)
    \/ Serve
    \/ \E c \in ConcIn.conns : Step(c, ConcIn)

ConcSpec == ConcInit /\ [][ConcNext]_vars

\* ------------------------------------------------------------ query strings

MaxPairs == 3

RECURSIVE SplitAll(_, _)
\* s.split(ch)
SplitAll(s, ch) ==
    LET i == Find(s, ch, 1)
    IN IF i = 0 THEN <<s>> ELSE <<SubSeq(s, 1, i - 1)>> \o SplitAll(Drop(s, i), ch)

HexLower == <<"0", "1", "2", "3", "4", "5", "6", "7", "8", "9", "a", "b", "c", "d", "e", "f">>

HexUpper == <<"A", "B", "C", "D", "E", "F">>

\* the value of the hexadecimal digit ch, -1 when ch is none
HexVal(ch) ==
    IF \E i \in 1..Len(HexLower) : HexLower[i] = ch
    THEN (CHOOSE i \in 1..Len(HexLower) : HexLower[i] = ch) - 1
    ELSE IF \E i \in 1..Len(HexUpper) : HexUpper[i] = ch
    THEN (CHOOSE i \in 1..Len(HexUpper) : HexUpper[i] = ch) + 9
    ELSE -1

\* the value int(x, 16) gives the digit ch of a str: a hexadecimal digit of ASCII or a
\* decimal digit of Unicode; -1 when ch is none
DigitVal(ch) ==
    IF HexVal(ch) >= 0 THEN HexVal(ch)
    ELSE IF ch \in DecimalChars THEN DecimalOf[ch]
    ELSE -1

\* the value of a string of one or two digits in base 16
HexNum(d) ==
    IF Len(d) = 1 THEN DigitVal(d[1]) ELSE 16 * DigitVal(d[1]) + DigitVal(d[2])

\* int(x, 16) for a str x of at most two characters: surrounding white space is
\* stripped, a leading sign is taken off, and anything but digits raises ValueError
Int16(x) ==
    LET t == RStripInt(LStripInt(x))
        neg == t # <<>> /\ t[1] = "-"
        d == IF t # <<>> /\ t[1] \in {"-", "+"} THEN Tail(t) ELSE t
    IN IF d = <<>> \/ \E i \in 1..Len(d) : DigitVal(d[i]) < 0
       THEN [ok |-> FALSE, n |-> 0]
       ELSE [ok |-> TRUE, n |-> IF neg THEN 0 - HexNum(d) ELSE HexNum(d)]

RECURSIVE Unescape(_, _)
\* "".join(chr(int(x[:2], 16)) + x[2:] for x in arr[i:]), ok being false when int
\* or chr raises ValueError
Unescape(arr, i) ==
    IF i > Len(arr) THEN [ok |-> TRUE, s |-> <<>>]
    ELSE LET x == arr[i]
             n == Int16(SubSeq(x, 1, IF Len(x) < 2 THEN Len(x) ELSE 2))
             rest == Unescape(arr, i + 1)
         IN IF ~n.ok \/ n.n < 0 \/ ~rest.ok THEN [ok |-> FALSE, s |-> <<>>]
            ELSE [ok |-> TRUE, s |-> <<Chr(n.n)>> \o Drop(x, 2) \o rest.s]

\* unquote_plus(s), lines 14-18
unquote_plus(s) ==
    LET s2 == [i \in 1..Len(s) |-> IF s[i] = "+" THEN " " ELSE s[i]]
        arr == SplitAll(s2, "%")
        arr2 == Unescape(arr, 2)
    IN [ok |-> arr2.ok, s |-> arr[1] \o arr2.s]

\* the values of a parsed query string: True, a string, or a list of those
QTrue == [t |-> "bool", s |-> <<>>, v |-> <<>>]

QStr(s) == [t |-> "str", s |-> s, v |-> <<>>]

QList(v) == [t |-> "list", s |-> <<>>, v |-> v]

EmptyDict == [k \in {} |-> k]

\* the value of a key stored over the one it had
Overwrite(res, key, val) == Put(res, key, val)

\* lines 28-35; a value is never None, so old is not None exactly when res has the key
Accumulate(res, key, val) ==
    IF key \in DOMAIN res
    THEN IF res[key].t = "list"
         THEN Put(res, key, QList(Append(res[key].v, val)))
         ELSE Put(res, key, QList(<<res[key], val>>))
    ELSE Put(res, key, val)

RECURSIVE ParsePairs(_, _, _)
\* lines 24-35: the loop over pairs from pair i on, res being the mapping so far;
\* ok is false when unquote_plus raises
ParsePairs(pairs, i, res) ==
    IF i > Len(pairs) THEN [ok |-> TRUE, res |-> res]
    ELSE LET p == Split1(pairs[i], "=")
             key == unquote_plus(p[1])
             val == IF Len(p) = 1 THEN [ok |-> TRUE, s |-> <<>>] ELSE unquote_plus(p[2])
         IN IF ~key.ok \/ ~val.ok THEN [ok |-> FALSE, res |-> EmptyDict]
            ELSE ParsePairs(pairs, i + 1,
                            Accumulate(res, key.s, IF Len(p) = 1 THEN QTrue ELSE QStr(val.s)))

\* parse_qs(s), lines 20-36
parse_qs(s) ==
    IF s = <<>> THEN [ok |-> TRUE, res |-> EmptyDict]
    ELSE ParsePairs(SplitAll(s, "&"), 1, EmptyDict)

\* a handler calls req.parse_qs() (lines 95-97); a ValueError of unquote_plus leaves
\* the handler and is caught at line 203
ReqParseQs(c) ==
    /\ running = NoTask
    /\ conn[c].pc = "in_handler"
    /\ conn[c].pending = <<>>
    /\ LET k == conn[c]
           r == parse_qs(k.req.qs)
       IN IF r.ok
          THEN /\ Set(c, [k EXCEPT !.req = [@ EXCEPT !.form = r.res,
                                                     !.has = @ \cup {"form"}],
                                   !.parsed = k.req.qs])
               /\ UNCHANGED running
          ELSE /\ Set(c, [k EXCEPT !.err = "ValueError", !.pc = "exc"])
               /\ running' = c
    /\ UNCHANGED <<appvars, phase, calls>>

S_content_length ==
    <<"C", "o", "n", "t", "e", "n", "t", "-", "L", "e", "n", "g", "t", "h">>

RECURSIVE DecNum(_, _)
\* the value of a string of decimal digits and underscores, after acc
DecNum(d, acc) ==
    IF d = <<>> THEN acc
    ELSE IF d[1] = "_" THEN DecNum(Tail(d), acc)
    ELSE DecNum(Tail(d), 10 * acc + HexVal(d[1]))

\* int(x) for a bytes value x: surrounding white space is stripped, a leading sign is
\* taken off, single underscores may stand between digits, and anything else raises
\* ValueError
Int10(x) ==
    LET t == Strip(x)
        neg == t # <<>> /\ t[1] = "-"
        d == IF t # <<>> /\ t[1] \in {"-", "+"} THEN Tail(t) ELSE t
        digit(ch) == HexVal(ch) \in 0..9
    IN IF \/ d = <<>>
          \/ \E i \in 1..Len(d) : ~digit(d[i]) /\ d[i] # "_"
          \/ d[1] = "_" \/ d[Len(d)] = "_"
          \/ \E i \in 1..(Len(d) - 1) : d[i] = "_" /\ d[i + 1] = "_"
       THEN [ok |-> FALSE, n |-> 0]
       ELSE [ok |-> TRUE, n |-> IF neg THEN 0 - DecNum(d, 0) ELSE DecNum(d, 0)]

\* a handler calls req.read_form_data(), line 90 and the call of readexactly (line
\* 91): req.headers is missing when the headers were not parsed (AttributeError), the
\* header may be missing (KeyError) or no integer (ValueError), and readexactly
\* refuses a negative size (ValueError); otherwise the handler is suspended in the read
ReqReadFormData(c) ==
    /\ running = NoTask
    /\ conn[c].pc = "in_handler"
    /\ conn[c].pending = <<>>
    /\ conn[c].hcalls < MaxHandlerCalls
    /\ LET k == conn[c]
           has == "headers" \in k.req.has
           n == IF has /\ S_content_length \in DOMAIN k.req.headers
                THEN Int10(k.req.headers[S_content_length])
                ELSE [ok |-> FALSE, n |-> 0]
           e == IF ~has THEN "AttributeError"
                ELSE IF S_content_length \notin DOMAIN k.req.headers THEN "KeyError"
                ELSE IF ~n.ok \/ n.n < 0 THEN "ValueError"
                ELSE ""
       IN IF e # ""
          THEN /\ Set(c, [k EXCEPT !.hcalls = @ + 1, !.err = e, !.pc = "exc"])
               /\ running' = c
          ELSE /\ Set(c, [k EXCEPT !.hcalls = @ + 1, !.size = n.n, !.pc = "read_form"])
               /\ UNCHANGED running
    /\ UNCHANGED <<appvars, phase, calls>>

\* lines 91-93: readexactly returns the bytes data, which are decoded, and the form is
\* parsed from the str.  When the peer has sent fewer than size bytes and closed, the
\* stream either raises its end-of-file error or returns what it has, as the asyncio
\* implementation decides (short says which).  data.decode() raises
\* UnicodeDecodeError, a ValueError, when the bytes are no UTF-8.
ReadFormBody(c, data, short) ==
    /\ running = NoTask
    /\ conn[c].pc = "read_form"
    /\ \A i \in 1..Len(data) : data[i] \in Bytes
    /\ Len(data) <= conn[c].size
    /\ short => Len(data) < conn[c].size
    /\ LET k == conn[c]
           d == Utf8Decode(data)
           r == parse_qs(d.s)
       IN IF Len(data) < k.size /\ ~short
          THEN /\ Set(c, [k EXCEPT !.err = "EOFError", !.pc = "exc"])
               /\ running' = c
          ELSE IF d.ok /\ r.ok
          THEN /\ Set(c, [k EXCEPT !.req = [@ EXCEPT !.form = r.res,
                                                     !.has = @ \cup {"form"}],
                                   !.parsed = d.s, !.pc = "in_handler"])
               /\ UNCHANGED running
          ELSE /\ Set(c, [k EXCEPT !.err = "ValueError", !.pc = "exc"])
               /\ running' = c
    /\ UNCHANGED <<appvars, phase, calls>>

\* jsonify(writer, dict), lines 57-60: its awrite calls
Jsonify == StartResponse("application/json", "200") \o << [fmt |-> "%s", arg |-> "<json>"] >>

\* a handler answers through start_response, http_error or jsonify: out is the
\* helper's awrite calls, and the handler is suspended in the first
HandlerResponds(c, out) ==
    /\ running = NoTask
    /\ conn[c].pc = "in_handler"
    /\ conn[c].pending = <<>>
    /\ conn[c].hcalls < MaxHandlerCalls
    /\ Set(c, [conn[c] EXCEPT !.hcalls = @ + 1, !.pending = out])
    /\ UNCHANGED <<appvars, phase, calls, running>>

\* a handler answers through self.sendfile(writer, fname), lines 242-253, as
\* handle_static does
HandlerSendfile(c, fname, exists, n) ==
    /\ running = NoTask
    /\ conn[c].pc = "in_handler"
    /\ conn[c].pending = <<>>
    /\ conn[c].hcalls < MaxHandlerCalls
    /\ n \in 0..MaxChunks
    /\ ~exists => n = 0
    /\ LET k == conn[c]
       IN IF exists
          THEN /\ Set(c, [k EXCEPT !.hcalls = @ + 1,
                                   !.lookups = Append(@, [name |-> fname, found |-> TRUE]),
                                   !.chunks = n,
                                   !.pending = SendFile(fname, n)])
               /\ UNCHANGED running
          ELSE /\ Set(c, [k EXCEPT !.hcalls = @ + 1,
                                   !.lookups = Append(@, [name |-> fname, found |-> FALSE]),
                                   !.err = "NameError", !.pc = "exc"])
               /\ running' = c
    /\ UNCHANGED <<appvars, phase, calls>>

\* one awrite of the helper the handler called completes
HandlerWrite(c) ==
    /\ running = NoTask
    /\ conn[c].pc = "in_handler"
    /\ conn[c].pending # <<>>
    /\ Set(c, [conn[c] EXCEPT !.written = Append(@, Head(conn[c].pending)),
                              !.pending = Tail(@)])
    /\ UNCHANGED <<appvars, phase, calls, running>>

Q_a == <<"a">>
Q_a1 == <<"a", "=", "1">>
Q_a2 == <<"a", "=", "2">>
Q_b1 == <<"b", "=", "1">>
Q_none == <<>>
Q_esc == <<"%", "6", "1", "=", "+">>
Q_eq2 == <<"a", "=", "1", "=", "2">>
Q_bad == <<"a", "=", "%", "z", "z">>

\* a=%<U+0663><U+0663> in UTF-8: an escape of two decimal digits of Unicode
Q_uni == <<"a", "=", "%", Chr(217), Chr(163), Chr(217), Chr(163)>>

QsPairs == {Q_a, Q_a1, Q_a2, Q_b1, Q_none, Q_esc, Q_eq2, Q_bad, Q_uni}

\* bodies of five bytes: %<U+0663>=1, and one that is no UTF-8
B_uni == <<"%", Chr(217), Chr(163), "=", "1">>

B_undecodable == <<"a", "=", Chr(255), "x", "y">>

RECURSIVE Join(_)
\* "&".join(ps)
Join(ps) ==
    IF Len(ps) = 0 THEN <<>>
    ELSE IF Len(ps) = 1 THEN ps[1]
    ELSE ps[1] \o <<"&">> \o Join(Tail(ps))

\* the query strings of at most MaxPairs pairs of QsPairs
QueryStrings == UNION {{Join(ps) : ps \in [1..n -> QsPairs]} : n \in 0..MaxPairs}

H_len == S_content_length \o <<":", " ", "5", CRLF>>

S_page == <<"p", ".", "h", "t", "m", "l">>

\* One application with the route /foo/1, requested with every query string of
\* QueryStrings and with or without a body of five bytes announced; the handler calls
\* req.parse_qs() or req.read_form_data(), answers through one of the response helpers,
\* and returns.
QsIn ==
    [conns |-> {"c1"},
     reqlines |-> {Get(S_foo1 \o <<"?">> \o qs) : qs \in QueryStrings},
     lines |-> {H_blank, H_len},
     bodies |-> {Q_esc, Q_bad, Q_a1, B_uni, B_undecodable},
     responses |-> {StartResponse(DefaultContentType, "200"), HttpError("500"), Jsonify},
     files |-> {S_page},
     chunks |-> {0, 1},
     rets |-> {PyNone},
     hooks |-> {"return"},
     lazy |-> BOOLEAN]

QsInit == InitWith({<<R_exact>>}, {[a \in Apps |-> FALSE]})

QsNext ==
    \/ \E lazy_init \in QsIn.lazy : Run(lazy_init)
    \/ \E c \in QsIn.conns :
          \/ Accept(c)
          \/ \E line \in QsIn.reqlines : ReadRequestLine(c, line)
          \/ MountTop(c)
          \/ MountFor(c)
          \/ InitApp(c)
          \/ ResolveRoute(c)
          \/ \E line \in NextLines(c, QsIn.lines) : ParseRead(c, line)
          \/ ParseTest(c)
          \/ Dispatch(c)
          \/ ReqParseQs(c)
          \/ ReqReadFormData(c)
          \/ \E data \in QsIn.bodies, short \in BOOLEAN : ReadFormBody(c, data, short)
          \/ \E out \in QsIn.responses : HandlerResponds(c, out)
          \/ \E fname \in QsIn.files, exists \in BOOLEAN, n \in QsIn.chunks :
                HandlerSendfile(c, fname, exists, n)
          \/ HandlerWrite(c)
          \/ \E v \in QsIn.rets : HandlerReturns(c, v)
          \/ \E outcome \in QsIn.hooks : HandleExc(c, outcome)
          \/ Close(c)

QsSpec == QsInit /\ [][QsNext]_vars

\* ------------------------------------------------------------ properties

\* the route loop and the header policy of connection c have run (line 182 passed)
Resolved(c) == conn[c].headers_mode # ""

\* the indices of the entries of c's resolved application that match c's path
Hits(c) ==
    LET um == url_map[conn[c].app]
    IN {i \in 1..Len(um) : EntryHit(um[i], conn[c].path) # "no"}

Least(S) == CHOOSE i \in S : \A j \in S : i <= j

\* the longest of a non-empty set of sequences
Longest(S) == CHOOSE x \in S : \A y \in S : Len(y) <= Len(x)

\* the handler of c has raised: an Exception, which line 203 caught, or an error that
\* ended the task before handle_exc was called
HandlerRaised(c) ==
    \/ conn[c].err = "HandlerError"
    \/ conn[c].pc = "failed" /\ conn[c].hook = <<>>

\* C1: when the matched handler raises, handle_exc is called exactly once with that
\* error and the connection is then closed, whether the hook returns or raises.
C1_HandlerErrorHookThenClose ==
    \A c \in Conns :
        (HandlerRaised(c) /\ conn[c].pc \in {"done", "failed"})
            => /\ conn[c].hook = <<"HandlerError">>
               /\ conn[c].aclose = 1

\* C2: a well-formed request whose path, after mount resolution, matches no entry of
\* the resolved application's route table is drained with policy skip, answered with
\* status 404 and closed; no handler and no exception hook is called.
C2_NotFound ==
    \A c \in Conns :
        (Resolved(c) /\ Hits(c) = {})
            => /\ conn[c].headers_mode = "skip"
               /\ "headers" \notin conn[c].req.has
               /\ conn[c].invoked = <<>>
               /\ conn[c].hook = <<>>
               /\ conn[c].pc \in {"skip_read", "skip_test", "dispatch", "not_found",
                                   "close", "done"}
               /\ conn[c].pc \in {"dispatch", "not_found", "close", "done"}
                      => conn[c].l = <<CRLF>>
               /\ conn[c].pc \in {"skip_read", "skip_test", "dispatch"} => conn[c].written = <<>>
               /\ conn[c].pc = "not_found" => Statuses(conn[c].written) \subseteq {"404"}
               /\ conn[c].pc \in {"close", "done"} => Statuses(conn[c].written) = {"404"}
               /\ conn[c].pc = "done" => conn[c].aclose = 1

C2_Witness ==
    \E c \in Conns :
        /\ Resolved(c) /\ Hits(c) = {}
        /\ conn[c].pc = "done"
        /\ conn[c].nlines > 0
        /\ conn[c].app # Root
        /\ Statuses(conn[c].written) = {"404"}

\* C3: aclose is never called twice on a connection; once the task of a connection
\* has ended after its handler returned, aclose was called exactly once unless the
\* handler returned False, in which case it was not called; and once the task has
\* ended on any other path (empty read, not found, error), aclose was called exactly
\* once.
C3_CloseContract ==
    \A c \in Conns :
        /\ conn[c].aclose <= 1
        /\ (conn[c].pc = "done" /\ conn[c].invoked # <<>> /\ conn[c].hook = <<>>)
               => conn[c].aclose = (IF conn[c].close = PyFalse THEN 0 ELSE 1)
        /\ (/\ conn[c].pc \in {"done", "failed"}
            /\ (conn[c].pc = "failed" \/ conn[c].invoked = <<>> \/ conn[c].hook # <<>>))
               => conn[c].aclose = 1

\* C5: when the first read returns empty the connection is closed exactly once, and
\* nothing is written, no application is initialized, no handler and no hook is called.
C5_EmptyFirstRead ==
    \A c \in Conns :
        (conn[c].pc \notin {"idle", "request_line"} /\ Len(conn[c].request_line) = 0)
            => /\ conn[c].pc = "done"
               /\ conn[c].aclose = 1
               /\ conn[c].written = <<>>
               /\ conn[c].inits = 0
               /\ conn[c].invoked = <<>>
               /\ conn[c].hook = <<>>

C5_Witness ==
    \E c \in Conns :
        /\ conn[c].pc = "done" /\ Len(conn[c].request_line) = 0
        /\ conn[c].aclose = 1
        /\ ~inited["sub1"] /\ mounts[Root] # <<>>

\* C9: the entries of the resolved application are tried in registration order and
\* the first one that matches wins: its handler, options and match are the ones used,
\* and no other handler is called.
C9_FirstMatchWins ==
    \A c \in Conns :
        (Resolved(c) /\ Hits(c) # {})
            => LET e == url_map[conn[c].app][Least(Hits(c))]
               IN /\ conn[c].found
                  /\ conn[c].handler = e[2]
                  /\ conn[c].extra = (IF Len(e) > 2 THEN e[3] ELSE NoExtra)
                  /\ ("url_match" \in conn[c].req.has) = (e[1].kind = "re")
                  /\ e[1].kind = "re" => conn[c].req.url_match = Group1(e[1], conn[c].path)
                  /\ \A i \in 1..Len(conn[c].invoked) : conn[c].invoked[i] = e[2]
                  /\ Len(conn[c].invoked) <= 1

C9_Witness ==
    \E c \in Conns :
        /\ Resolved(c)
        /\ \E i, j \in Hits(c) :
              /\ i < j
              /\ url_map[conn[c].app][i][2] # url_map[conn[c].app][j][2]
              /\ url_map[conn[c].app][i][1].kind = "re"
              /\ conn[c].invoked = <<url_map[conn[c].app][i][2]>>

\* C10: the static route is a last resort: handle_static is selected for a path only
\* when no other registered route of the application matches it, also a route
\* registered after construction with route() or add_url_rule().
C10_StaticOnlyFallback ==
    \A c \in Conns :
        (Resolved(c) /\ conn[c].found /\ conn[c].handler = "handle_static")
            => \A i \in Hits(c) : url_map[conn[c].app][i][2] = "handle_static"

\* C6: every mount table is sorted by descending length of its entries' prefixes.
C6_MountsSorted ==
    \A a \in Apps :
        \A i, j \in 1..Len(mounts[a]) :
            i < j => Len(url[mounts[a][i]]) >= Len(url[mounts[a][j]])

\* C7: each step of mount resolution selects the longest mount prefix of the current
\* application that is a prefix of the current path.
C7_LongestPrefixSelected ==
    [][\A c \in Conns :
          (conn[c].pc = "mount_for" /\ conn'[c].pc = "mount_top")
              => LET ms == mounts[conn[c].app]
                     cands == {url[ms[i]] : i \in {j \in 1..Len(ms) :
                                                    StartsWith(conn[c].path, url[ms[j]])}}
                 IN /\ conn'[c].root \in cands
                    /\ Len(conn'[c].root) = Len(Longest(cands))
                    /\ conn'[c].path = StripPrefix(conn[c].path, Longest(cands))]_vars

\* C8: mount resolution terminates on every mount configuration and request path.
C8_MountResolutionTerminates ==
    \A c \in Conns :
        (conn[c].pc = "mount_top") ~> (conn[c].pc \notin {"mount_top", "mount_for"})

\* C4: the header-reading step ends for every peer behaviour, also when the peer
\* closes before the blank line, under policy skip as under policy parse.
C4_HeaderReadingEnds ==
    \A c \in Conns :
        (conn[c].pc \in {"skip_read", "parse_read"})
            ~> (conn[c].pc \notin {"skip_read", "skip_test", "parse_read", "parse_test"})

\* the options of route entry e (lines 166-168)
ExtraOf(e) == IF Len(e) > 2 THEN e[3] ELSE NoExtra

\* C11: the header policy route resolution chooses for a matched route is the
\* route's own headers option, and otherwise the default policy of the application
\* the request resolved to.
C11_OwningAppDefault ==
    [][\A c \in Conns :
          (conn[c].pc = "route" /\ conn'[c].pc # "route" /\ Hits(c) # {})
              => LET e == url_map[conn[c].app][Least(Hits(c))]
                 IN conn'[c].headers_mode =
                        (IF "headers" \in DOMAIN ExtraOf(e) THEN ExtraOf(e)["headers"]
                         ELSE headers_mode[conn[c].app])]_vars

RECURSIVE Reach(_, _)
\* the applications reached from those of S in at most n mount steps
Reach(S, n) ==
    IF n = 0 THEN S
    ELSE Reach(S \cup UNION {{mounts[a][i] : i \in 1..Len(mounts[a])} : a \in S}, n - 1)

\* the root application and every application mounted below it
Mounted == Reach({Root}, Cardinality(Apps))

\* C18: run() without lazy initialization initializes the root and all mounted
\* applications; no route of an application is resolved while its flag is false; a
\* flag that is true stays true.
C18_InitLifecycle ==
    [][/\ Run(FALSE) => \A a \in Mounted : inited'[a]
       /\ \A a \in Apps : inited[a] => inited'[a]
       /\ \A c \in Conns : conn'[c].pc = "route" => inited'[conn'[c].app]]_vars

\* C19: no step of a connection task (each changes conn), and no run() or serve()
\* (they change phase), so no init() either, changes a route table, a mount table, a
\* mount prefix or a default header policy.
C19_RequestHandlingFrame ==
    [][(conn' # conn \/ phase' # phase)
          => UNCHANGED <<url_map, mounts, url, headers_mode>>]_vars

C19_Witness ==
    \E c, d \in Conns :
        /\ c # d
        /\ conn[c].pc = "done" /\ conn[c].inits = 1 /\ conn[c].invoked # <<>>
        /\ conn[d].pc = "done" /\ conn[d].hook # <<>>

\* C20: however the connection tasks interleave at their suspension points, the
\* dispatcher calls init() of an application at most once.
C20_InitAtMostOnce ==
    \A a \in Apps :
        /\ Cardinality({c \in Conns : conn[c].inits > 0 /\ conn[c].app = a}) <= 1
        /\ \A c \in Conns : conn[c].inits <= 1

C20_Witness ==
    \E c, d \in Conns :
        /\ c # d
        /\ conn[c].app = conn[d].app /\ conn[c].app # Root
        /\ conn[c].pc \in {"skip_read", "parse_read"}
        /\ conn[d].pc \in {"skip_read", "parse_read"}
        /\ conn[c].inits = 1 /\ conn[d].inits = 0

\* C12: under policy skip the request has no header mapping and the handler starts
\* with the blank line as the last line read; under policy leave nothing is read after
\* the request line and the request has no header mapping; a header mapping is set
\* under policy parse only.
C12_HeaderPolicyFrame ==
    \A c \in Conns :
        LET k == conn[c]
        IN /\ k.headers_mode = "skip" => "headers" \notin k.req.has
           /\ (k.headers_mode = "skip" /\ k.pc \in {"in_handler", "static"})
                  => k.l = <<CRLF>>
           /\ k.headers_mode = "leave"
                  => "headers" \notin k.req.has /\ k.l = <<>> /\ k.nlines = 0 /\ ~k.eof
           /\ "headers" \in k.req.has => k.headers_mode = "parse"

C12_Witness ==
    \E c \in Conns :
        /\ conn[c].headers_mode = "skip"
        /\ conn[c].pc = "in_handler"
        /\ conn[c].nlines > 0

\* C13: a request line of fewer than three tokens, and a header line without ':' met
\* by parse_headers, reach handle_exc exactly once; no handler is invoked, no 404 is
\* written, and the connection is closed.
C13_MalformedReachesHook ==
    \A c \in Conns :
        LET k == conn[c]
        IN (k.err = "ValueError" /\ k.pc \in {"done", "failed"})
               => /\ k.hook = <<"ValueError">>
                  /\ k.invoked = <<>>
                  /\ "404" \notin Statuses(k.written)
                  /\ k.aclose = 1

\* C14: when the resource of a static path does not exist, status 404 is written,
\* handle_exc is not called, and the connection is closed.
C14_MissingResource404 ==
    \A c \in Conns :
        LET k == conn[c]
        IN (/\ k.lookups # <<>>
            /\ ~k.lookups[Len(k.lookups)].found
            /\ k.pc = "done")
               => /\ Statuses(k.written) = {"404"}
                  /\ k.hook = <<>>
                  /\ k.aclose = 1

\* C15: once handle_static has run on a captured path that contains "..", status 403
\* is the one status written, no resource was looked up, handle_exc was not called,
\* and the connection is closed.
C15_DotDotForbidden ==
    \A c \in Conns :
        LET k == conn[c]
        IN (/\ k.invoked = <<"handle_static">>
            /\ "url_match" \in k.req.has
            /\ \E i \in 1..(Len(k.req.url_match) - 1) :
                   k.req.url_match[i] = "." /\ k.req.url_match[i + 1] = "."
            /\ k.pc # "static")
               => /\ Statuses(k.written) \subseteq {"403"}
                  /\ k.lookups = <<>>
                  /\ k.hook = <<>> /\ k.err = ""
                  /\ k.pc \in {"static_write", "close", "done"}
                  /\ k.pc \in {"close", "done"} => Statuses(k.written) = {"403"}
                  /\ k.pc = "done" => k.aclose = 1

C15_Witness ==
    \E c \in Conns :
        /\ conn[c].invoked = <<"handle_static">>
        /\ conn[c].req.url_match = Drop(S_secret, 1)
        /\ conn[c].pc = "done"
        /\ conn[c].aclose = 1

RECURSIVE Strippings(_, _)
\* the pairs (application, path) that at most n more strippings of a mount prefix lead
\* to from the pairs of R
Strippings(R, n) ==
    IF n = 0 THEN R
    ELSE Strippings(
             R \cup UNION {{<<mounts[x[1]][i], StripPrefix(x[2], url[mounts[x[1]][i]])>> :
                              i \in {j \in 1..Len(mounts[x[1]]) :
                                        StartsWith(x[2], url[mounts[x[1]][j]])}} : x \in R},
             n - 1)

\* the path of the request target of c, without the query string
TargetPath(c) == Split1(RequestTokens(conn[c].request_line).toks[2], "?")[1]

\* C17: the application and path a request resolved to come from the root and the
\* target path by stripping mount prefixes, no mount of that application is a prefix
\* of the path any more, the handler is the first matching entry of that
\* application's table for that path, and that path is the request path handed to
\* the handler.
C17_RouteInResolvedApp ==
    \A c \in Conns :
        LET k == conn[c]
        IN Resolved(c)
               => /\ <<k.app, k.path>> \in Strippings({<<Root, TargetPath(c)>>}, Cardinality(Apps))
                  /\ \A i \in 1..Len(mounts[k.app]) : ~StartsWith(k.path, url[mounts[k.app][i]])
                  /\ k.found = (Hits(c) # {})
                  /\ k.found => k.handler = url_map[k.app][Least(Hits(c))][2]
                  /\ k.invoked # <<>> => k.invoked = <<k.handler>> /\ k.req.path = k.path

C17_Witness ==
    \E c \in Conns :
        LET k == conn[c]
        IN /\ k.app # Root
           /\ k.invoked # <<>>
           /\ k.path # TargetPath(c)
           /\ \E i \in 1..Len(url_map[Root]) :
                  /\ EntryHit(url_map[Root][i], k.path) # "no"
                  /\ url_map[Root][i][2] # k.handler

\* the decoded key of the pair p of a query string
KeyOf(p) == unquote_plus(Split1(p, "=")[1]).s

\* the value of the pair p: True when p has no "=", the decoded text after the first
\* "=" otherwise
ValOf(p) ==
    IF Find(p, "=", 1) = 0 THEN QTrue ELSE QStr(unquote_plus(Drop(p, Find(p, "=", 1))).s)

\* the values of the pairs of qs whose key is key, in order of occurrence
ValuesOf(qs, key) ==
    LET HasKey(p) == KeyOf(p) = key
        ps == SelectSeq(SplitAll(qs, "&"), HasKey)
    IN [i \in 1..Len(ps) |-> ValOf(ps[i])]

\* C16: the mapping parse_qs returns (req.parse_qs() and req.read_form_data() store
\* it) has exactly the keys of the pairs of the string it was given; a key that occurs
\* once maps to True when its pair has no "=" and to the value otherwise; a key that
\* occurs n >= 2 times maps to the list of its n values in order of occurrence; the
\* empty string gives the empty mapping.
C16_ParseQsMapping ==
    \A c \in Conns :
        "form" \in conn[c].req.has
            => LET qs == conn[c].parsed
                   form == conn[c].req.form
                   pairs == SplitAll(qs, "&")
               IN IF qs = <<>> THEN DOMAIN form = {}
                  ELSE /\ DOMAIN form = {KeyOf(pairs[i]) : i \in 1..Len(pairs)}
                       /\ \A key \in DOMAIN form :
                              LET vs == ValuesOf(qs, key)
                              IN form[key] = IF Len(vs) = 1 THEN vs[1] ELSE QList(vs)

C16_Witness ==
    \E c \in Conns :
        /\ "form" \in conn[c].req.has
        /\ \E key \in DOMAIN conn[c].req.form :
               /\ conn[c].req.form[key].t = "list"
               /\ Len(conn[c].req.form[key].v) = 3
               /\ conn[c].req.form[key].v[1] = QStr(<<"1">>)
               /\ conn[c].req.form[key].v[2] = QTrue
               /\ conn[c].req.form[key].v[3] = QStr(<<"2">>)

====
